---- MODULE Spec2Model ----
(***************************************************************************)
(* LegalLens: the application shell (App), the file upload component, the  *)
(* text extractor, the analysis client, the clause panel and the chat      *)
(* window, modelled as one state machine.  Texts are sequences of          *)
(* one-character strings, so that trimming, whitespace stripping,          *)
(* substring search and prefixes are computed as the code computes them.   *)
(* A nullable value is <<>> (null) or <<v>> (the value v).                 *)
(***************************************************************************)
EXTENDS Integers, Sequences, FiniteSets, Bags, TLC

-----------------------------------------------------------------------------
(* Bounds of the model *)

MaxPages ==
    5

MaxRewriteCalls ==
    2

MaxChatCalls ==
    2

MaxMessages ==
    5

MaxNow ==
    1001

\* the most next steps, red flags and clauses of an exported analysis
MaxItems ==
    3

\* the most lines a text of an exported analysis is split into
MaxLines ==
    20

\* the characters splitTextToSize fits on one line
CharsPerLine ==
    90

\* how far a document exceeds the limit of analyzeDocument
MaxOver ==
    2

-----------------------------------------------------------------------------
(* Program constants *)

MinPdfChars ==
    50

MinPasteChars ==
    50

MaxAnalysisChars ==
    30000

MaxChatContextChars ==
    20000

StartNow ==
    1000

\* the y coordinate the page-break tests of the export compare with
BottomLimit ==
    280

-----------------------------------------------------------------------------
(* Nullable values *)

Null ==
    << >>

Some(v) ==
    << v >>

Val(o) ==
    o[1]

-----------------------------------------------------------------------------
(* Strings as character sequences *)

Rep(c, n) ==
    [i \in 1..n |-> c]

Min(a, b) ==
    IF a < b THEN a ELSE b

\* JavaScript truthiness of a string: the empty string is falsy
TruthyStr(s) ==
    Len(s) > 0

\* the regular expression class \s, on the characters the model uses
IsWhitespace(c) ==
    c \in {" ", "\n", "\t"}

\* s.replace(/\s/g, '')
StripWhitespace(s) ==
    SelectSeq(s, LAMBDA c : ~IsWhitespace(c))

RECURSIVE TrimStart(_)
TrimStart(s) ==
    IF s # << >> /\ IsWhitespace(Head(s)) THEN TrimStart(Tail(s)) ELSE s

RECURSIVE TrimEnd(_)
TrimEnd(s) ==
    IF s # << >> /\ IsWhitespace(s[Len(s)])
    THEN TrimEnd(SubSeq(s, 1, Len(s) - 1))
    ELSE s

\* s.trim()
Trim(s) ==
    TrimEnd(TrimStart(s))

\* s.substring(0, n)
Substring0(s, n) ==
    SubSeq(s, 1, Min(Len(s), n))

\* s.includes(pat)
Includes(s, pat) ==
    \E i \in 0..(Len(s) - Len(pat)) : SubSeq(s, i + 1, i + Len(pat)) = pat

\* items.join(sep)
RECURSIVE Join(_, _)
Join(items, sep) ==
    IF items = << >> THEN << >>
    ELSE IF Len(items) = 1 THEN items[1]
    ELSE items[1] \o sep \o Join(Tail(items), sep)

Digit(d) ==
    CASE d = 0 -> "0" [] d = 1 -> "1" [] d = 2 -> "2" [] d = 3 -> "3"
      [] d = 4 -> "4" [] d = 5 -> "5" [] d = 6 -> "6" [] d = 7 -> "7"
      [] d = 8 -> "8" [] d = 9 -> "9"

\* the decimal numeral of a natural number: `${i}` and n.toString()
RECURSIVE DecimalString(_)
DecimalString(n) ==
    IF n < 10 THEN << Digit(n) >> ELSE DecimalString(n \div 10) \o << Digit(n % 10) >>

-----------------------------------------------------------------------------
(* Fixed strings of the program *)

\* the marker processFile looks for in an extracted text
UnableToExtract ==
    << "U", "n", "a", "b", "l", "e", " ", "t", "o", " ", "e", "x", "t", "r", "a", "c",
       "t" >>

\* the text processFile puts in the paste area
PasteHint ==
    << "C", "o", "u", "l", "d", " ", "n", "o", "t", " ", "a", "u", "t", "o", "-", "p",
       "a", "r", "s", "e", " ", "P", "D", "F", " ", "i", "n", " ", "t", "h", "i", "s",
       " ", "d", "e", "m", "o", ".", " ", "P", "l", "e", "a", "s", "e", " ", "p", "a",
       "s", "t", "e", " ", "c", "o", "n", "t", "e", "n", "t", " ", "h", "e", "r", "e",
       "." >>

\* the fallback of rewriteClause for an empty response
RewriteFallback ==
    << "C", "o", "u", "l", "d", " ", "n", "o", "t", " ", "g", "e", "n", "e", "r", "a",
       "t", "e", " ", "r", "e", "w", "r", "i", "t", "e", "." >>

\* the fallback of sendMessageToChat for an empty response
ChatFallback ==
    << "I", " ", "d", "i", "d", "n", "'", "t", " ", "u", "n", "d", "e", "r", "s", "t",
       "a", "n", "d", " ", "t", "h", "a", "t", "." >>

\* the message handleSend appends when the chat call throws
Apology ==
    << "S", "o", "r", "r", "y", ",", " ", "I", " ", "e", "n", "c", "o", "u", "n", "t",
       "e", "r", "e", "d", " ", "a", "n", " ", "e", "r", "r", "o", "r", " ", "c", "o",
       "n", "n", "e", "c", "t", "i", "n", "g", " ", "t", "o", " ", "t", "h", "e", " ",
       "A", "I", "." >>

\* the text of the first message of every transcript
Greeting ==
    << "H", "e", "l", "l", "o", "!", " ", "I", " ", "h", "a", "v", "e", " ", "a", "n",
       "a", "l", "y", "z", "e", "d", " ", "y", "o", "u", "r", " ", "d", "o", "c", "u",
       "m", "e", "n", "t", ".", " ", "I", " ", "c", "a", "n", " ", "e", "x", "p", "l",
       "a", "i", "n", " ", "s", "p", "e", "c", "i", "f", "i", "c", " ", "c", "l", "a",
       "u", "s", "e", "s", ",", " ", "r", "i", "s", "k", "s", ",", " ", "o", "r", " ",
       "I", "n", "d", "i", "a", "n", " ", "l", "e", "g", "a", "l", " ", "i", "m", "p",
       "l", "i", "c", "a", "t", "i", "o", "n", "s", ".", " ", "W", "h", "a", "t", " ",
       "w", "o", "u", "l", "d", " ", "y", "o", "u", " ", "l", "i", "k", "e", " ", "t",
       "o", " ", "k", "n", "o", "w", "?" >>

\* a text the AI service answers a rewrite request with
RevisedClause ==
    << "R", "e", "v", "i", "s", "e", "d", " ", "c", "l", "a", "u", "s", "e", "." >>

-----------------------------------------------------------------------------
(* Files *)

\* a MIME type "major/minor"; the empty type has both parts empty
Mime(major, minor) ==
    [major |-> major, minor |-> minor]

\* a file name "stem.ext"
FileName(stem, ext) ==
    [stem |-> stem, ext |-> ext]

\* name.endsWith('.' + ext)
EndsWithExt(name, ext) ==
    name.ext = ext

\* type.startsWith('image/')
IsImageType(type) ==
    type.major = "image"

\* text: what the text reader yields; pages: the text items of each page of
\* the PDF text layer; ocr: what the OCR engine recognizes
File(name, type, text, pages, ocr) ==
    [name |-> name, type |-> type, text |-> text, pages |-> pages, ocr |-> ocr]

ContractText ==
    Rep("x", 30) \o << " ", "\n" >> \o Rep("y", 30)

\* the items of one page of a PDF
PageItemChoices ==
    { << >>,
      << Rep("a", 4), Rep("b", 5) >>,
      << Rep("a", 20), << " " >>, Rep("b", 19) >> }

\* PDFs of 1..MaxPages pages
PdfFiles ==
    { File(FileName("scan", "pdf"), Mime("application", "pdf"), << >>,
           [i \in 1..n |-> items], << >>) :
        n \in 1..MaxPages, items \in PageItemChoices }

TextFiles ==
    { File(FileName("contract", "txt"), Mime("text", "plain"), ContractText, << >>, << >>),
      File(FileName("empty", "txt"), Mime("text", "plain"), << >>, << >>, << >>),
      File(FileName("notes", "md"), Mime("", ""), ContractText, << >>, << >>),
      File(FileName("failed", "txt"), Mime("text", "plain"),
           UnableToExtract \o << " " >> \o Rep("z", 40), << >>, << >>) }

ImageFiles ==
    { File(FileName("photo", "png"), Mime("image", "png"), << >>, << >>, ContractText),
      File(FileName("blank", "jpg"), Mime("image", "jpeg"), << >>, << >>, << >>) }

\* files of every other type, a .docx among them
OtherFiles ==
    { File(FileName("contract", ext), type, ContractText, << >>, << >>) :
        ext \in {"docx", "pdf"},
        type \in { Mime("", ""),
                   Mime("application", "vnd.openxmlformats-officedocument.wordprocessingml.document"),
                   Mime("text", "html") } }

AllFiles ==
    TextFiles \cup PdfFiles \cup ImageFiles \cup OtherFiles

-----------------------------------------------------------------------------
(* Text Extractor: extractTextFromFile *)

\* `--- Page ${i} ---\n`
PageMarker(i) ==
    << "-", "-", "-", " ", "P", "a", "g", "e", " " >> \o DecimalString(i)
        \o << " ", "-", "-", "-", "\n" >>

\* the loop over the pages: fullText += marker + pageText + '\n\n'
RECURSIVE PdfFullText(_, _)
PdfFullText(pages, n) ==
    IF n = 0 THEN << >>
    ELSE PdfFullText(pages, n - 1) \o PageMarker(n)
           \o Join(pages[n], << " " >>) \o << "\n", "\n" >>

Resolved(text, libs) ==
    [ok |-> TRUE, text |-> text, error |-> "", libs |-> libs]

Rejected(error, libs) ==
    [ok |-> FALSE, text |-> << >>, error |-> error, libs |-> libs]

IsPlainTextFile(file) ==
    \/ file.type = Mime("text", "plain")
    \/ EndsWithExt(file.name, "md")
    \/ EndsWithExt(file.name, "txt")

\* a PDF recognized by its extension as well
IsPdfFileByName(file) ==
    file.type = Mime("application", "pdf") \/ EndsWithExt(file.name, "pdf")

IsPdfFile(file) ==
    file.type = Mime("application", "pdf")

\* the scanned-document test on the concatenated text
PdfTooShort(fullText) ==
    Len(StripWhitespace(fullText)) < MinPdfChars

ExtractPdf(file, libOk) ==
    IF ~libOk
    THEN Rejected("Could not extract text from PDF. It might be a scanned image or password protected.", {"pdf"})
    ELSE LET fullText == PdfFullText(file.pages, Len(file.pages))
         IN  IF PdfTooShort(fullText)
             THEN Rejected("Could not extract text from PDF. It might be a scanned image or password protected.", {"pdf"})
             ELSE Resolved(fullText, {"pdf"})

\* libOk: whether the library the branch invokes (text reader, PDF parser,
\* OCR engine) succeeds.  libs: the libraries invoked.
extractTextFromFile(file, libOk) ==
    IF IsPlainTextFile(file)
    THEN IF libOk THEN Resolved(file.text, {"reader"})
         ELSE Rejected("Failed to read text file", {"reader"})
    ELSE IF IsPdfFile(file)
    THEN ExtractPdf(file, libOk)
    ELSE IF IsImageType(file.type)
    THEN IF libOk THEN Resolved(file.ocr, {"ocr"})
         ELSE Rejected("OCR processing failed.", {"ocr"})
    ELSE Rejected("Unsupported file type. Please use .txt, .pdf, .jpg, or .png.", {})

-----------------------------------------------------------------------------
(* What the AI service answers *)

Clause(id, title, text, riskLevel) ==
    [id |-> id, title |-> title, text |-> text, riskLevel |-> riskLevel,
     explanation |-> << "w", "h", "y" >>,
     indianLawReference |-> << "S", "2", "7" >>]

\* two clauses, red flags and next steps
AnalysisA ==
    [summary |-> << "s", "u", "m" >>, domain |-> "Property",
     clauses |-> << Clause(7, << "R", "e", "n", "t" >>, << "c", "7" >>, "High"),
                    Clause(3, << "T", "e", "r", "m" >>, << "c", "3" >>, "Low") >>,
     overallRiskScore |-> 80,
     redFlags |-> << << "f", "1" >> >>,
     nextSteps |-> << << "n", "1" >>, << "n", "2" >> >>]

\* one clause, whose id also occurs in AnalysisA; no red flags, no next steps
AnalysisB ==
    [summary |-> << "s", "u", "m" >>, domain |-> "Employment",
     clauses |-> << Clause(7, << "P", "a", "y" >>, << "d", "7" >>, "Medium") >>,
     overallRiskScore |-> 20,
     redFlags |-> << >>,
     nextSteps |-> << >>]

Analyses ==
    {AnalysisA, AnalysisB}

AllClauseIds ==
    UNION { { a.clauses[i].id : i \in DOMAIN a.clauses } : a \in Analyses }

\* response.text of a rewrite request: empty, or a rewritten clause
RewriteResponses ==
    { << >>, RevisedClause }

\* result.text of a chat message: empty, or an answer
ChatResponses ==
    { << >>, << "o", "k" >> }

\* what the user types in the chat input
ChatInputs ==
    { << >>, << " " >>, << "h", "i" >> }

\* what the user types in the paste area: n letters and r trailing blanks
ManualTexts ==
    { Rep("m", n) \o Rep(" ", r) :
        n \in {MinPasteChars - 1, MinPasteChars}, r \in 0..1 }

-----------------------------------------------------------------------------
(* State *)

VARIABLES
    \* App
    documentText, docName, analysis, isLoading, activeTab, rewrites,
    \* FileUpload
    mode, manualText, isProcessing, extracting,
    \* the analysis client
    apiKey, analyzing, chatSession,
    \* ClausePanel
    expandedClauseId, rewritingId, rewriteCalls,
    \* ChatWindow
    messages, input, isTyping, chatCalls, now,
    \* the handler that ran last and what it did
    lastOp

shellVars ==
    << documentText, docName, analysis, isLoading, activeTab, rewrites >>

uploadVars ==
    << mode, manualText, isProcessing, extracting >>

clientVars ==
    << apiKey, analyzing, chatSession >>

panelVars ==
    << expandedClauseId, rewritingId, rewriteCalls >>

chatVars ==
    << messages, input, isTyping, chatCalls, now >>

vars ==
    << shellVars, uploadVars, clientVars, panelVars, chatVars, lastOp >>

\* the empty Record<number, string>
NoRewrites ==
    [id \in {} |-> << >>]

ChatMessage(id, role, text) ==
    [id |-> id, role |-> role, text |-> text]

InitialMessages ==
    << ChatMessage(<< "1" >>, "model", Greeting) >>

Init ==
    /\ documentText = Null
    /\ docName = FileName("", "")
    /\ analysis = Null
    /\ isLoading = FALSE
    /\ activeTab = "chat"
    /\ rewrites = NoRewrites
    /\ mode = "upload"
    /\ manualText = << >>
    /\ isProcessing = FALSE
    /\ extracting = Null
    /\ apiKey \in BOOLEAN
    /\ analyzing = Null
    /\ chatSession = Null
    /\ expandedClauseId = Null
    /\ rewritingId = Null
    /\ rewriteCalls = EmptyBag
    /\ messages = InitialMessages
    /\ input = << >>
    /\ isTyping = FALSE
    /\ chatCalls = EmptyBag
    /\ now = StartNow
    /\ lastOp = [op |-> "init"]

-----------------------------------------------------------------------------
(* What App renders *)

\* !documentText
NoDocument(dt) ==
    IF dt = Null THEN TRUE ELSE ~TruthyStr(Val(dt))

\* the upload screen is rendered: !documentText || isLoading
ShowsUploadOf(dt, ld) ==
    IF ld THEN TRUE ELSE NoDocument(dt)

ShowsUpload ==
    ShowsUploadOf(documentText, isLoading)

\* the controls rendered whatever isLoading and isProcessing are
UploadControlsUnguarded ==
    ShowsUpload

\* FileUpload renders its controls, not the spinner
UploadControls ==
    ShowsUpload /\ ~(isLoading \/ isProcessing)

ChatMounted ==
    ~ShowsUpload

PanelMounted ==
    ~ShowsUpload /\ analysis # Null

\* the export and reset buttons of the header
ResetOffered ==
    analysis # Null

\* calls in flight whose component has been unmounted: their setState calls
\* on that component no longer have an effect
Detach(calls) ==
    LET dead == { [c EXCEPT !.live = FALSE] : c \in DOMAIN calls }
        Count(c) == IF c \in DOMAIN calls THEN calls[c] ELSE 0
    IN  [d \in dead |-> Count(d) + Count([d EXCEPT !.live = TRUE])]

UnmountPanel ==
    /\ expandedClauseId' = Null
    /\ rewritingId' = Null
    /\ rewriteCalls' = Detach(rewriteCalls)

UnmountChat ==
    /\ messages' = InitialMessages
    /\ input' = << >>
    /\ isTyping' = FALSE
    /\ chatCalls' = Detach(chatCalls)

UnmountUpload ==
    /\ mode' = "upload"
    /\ manualText' = << >>
    /\ isProcessing' = FALSE
    /\ extracting' = Null

-----------------------------------------------------------------------------
(* Analysis Client *)

\* the request with the whole text embedded in the prompt
analyzeDocumentUntruncated(text) ==
    [text |-> text, document |-> text]

\* the request analyzeDocument sends: the prompt embeds text.substring(0, 30000)
analyzeDocument(text) ==
    [text |-> text, document |-> Substring0(text, MaxAnalysisChars)]

\* initChat creating a session whether or not there is a key
initChatWithoutKey(docContext) ==
    Some([context |-> Substring0(docContext, MaxChatContextChars)])

\* initChat creating a session only when there is none
initChatKeepsSession(docContext) ==
    IF ~apiKey \/ chatSession # Null THEN chatSession
    ELSE Some([context |-> Substring0(docContext, MaxChatContextChars)])

\* initChat: without a key it returns at once, otherwise it replaces the session
initChat(docContext) ==
    IF ~apiKey THEN chatSession
    ELSE Some([context |-> Substring0(docContext, MaxChatContextChars)])

\* response.text || "Could not generate rewrite."
rewriteClause(responseText) ==
    IF TruthyStr(responseText) THEN responseText ELSE RewriteFallback

\* result.text || "I didn't understand that."
sendMessageToChat(responseText) ==
    IF TruthyStr(responseText) THEN responseText ELSE ChatFallback

-----------------------------------------------------------------------------
(* App *)

\* how a call of handleDocumentLoaded ends within the task that makes it
LoadOutcome ==
    IF apiKey THEN "loaded" ELSE "analysisFailed"

\* handleDocumentLoaded up to its await.  Without an API key analyzeDocument
\* throws before any request is made and the catch and finally blocks run in
\* the same task.
handleDocumentLoaded(text, fileName) ==
    /\ docName' = fileName
    /\ rewrites' = NoRewrites
    /\ IF apiKey
       THEN /\ documentText' = Some(text)
            /\ isLoading' = TRUE
            /\ analyzing' = Some(analyzeDocument(text))
       ELSE /\ documentText' = Null
            /\ isLoading' = FALSE
            /\ analyzing' = Null
    /\ UNCHANGED << analysis, activeTab, apiKey, chatSession >>

\* the analysis request succeeds: setAnalysis, initChat, and the finally block
AnalyzeResolve(result) ==
    /\ analyzing # Null
    /\ analysis' = Some(result)
    /\ chatSession' = initChat(Val(analyzing).text)
    /\ isLoading' = FALSE
    /\ analyzing' = Null
    /\ IF ShowsUploadOf(documentText, FALSE)
       THEN UNCHANGED uploadVars
       ELSE UnmountUpload
    /\ UNCHANGED << documentText, docName, activeTab, rewrites, apiKey >>
    /\ UNCHANGED << panelVars, chatVars >>
    /\ lastOp' = [op |-> "analyzeResolved"]

\* the analysis request fails, or its response is empty or unparsable
AnalyzeFail ==
    /\ analyzing # Null
    /\ documentText' = Null
    /\ isLoading' = FALSE
    /\ analyzing' = Null
    /\ UNCHANGED << docName, analysis, activeTab, rewrites, apiKey, chatSession >>
    /\ UNCHANGED << uploadVars, panelVars, chatVars >>
    /\ lastOp' = [op |-> "analyzeFailed"]

\* setRewrites({ [id]: text }): the other entries are dropped
handleRewriteUpdateAlone(prev, id, text) ==
    [j \in {id} |-> text]

\* setRewrites(prev => ({ ...prev, [id]: text }))
handleRewriteUpdate(prev, id, text) ==
    [j \in DOMAIN prev \cup {id} |-> IF j = id THEN text ELSE prev[j]]

\* what handleReset found: recorded with the handler, not program state
BeforeReset ==
    [document |-> documentText, rewritten |-> DOMAIN rewrites, tab |-> activeTab]

\* handleReset without its setActiveTab('chat')
handleResetKeepsTab ==
    /\ ResetOffered
    /\ documentText' = Null
    /\ analysis' = Null
    /\ rewrites' = NoRewrites
    /\ IF PanelMounted THEN UnmountPanel ELSE UNCHANGED panelVars
    /\ IF ChatMounted THEN UnmountChat /\ UNCHANGED now ELSE UNCHANGED chatVars
    /\ UNCHANGED << docName, isLoading, activeTab >>
    /\ UNCHANGED << uploadVars, clientVars >>
    /\ lastOp' = [op |-> "handleReset", before |-> BeforeReset]

handleReset ==
    /\ ResetOffered
    /\ documentText' = Null
    /\ analysis' = Null
    /\ rewrites' = NoRewrites
    /\ activeTab' = "chat"
    /\ IF PanelMounted THEN UnmountPanel ELSE UNCHANGED panelVars
    /\ IF ChatMounted THEN UnmountChat /\ UNCHANGED now ELSE UNCHANGED chatVars
    /\ UNCHANGED << docName, isLoading >>
    /\ UNCHANGED << uploadVars, clientVars >>
    /\ lastOp' = [op |-> "handleReset", before |-> BeforeReset]

\* the tab switcher of the main view
setActiveTab(tab) ==
    /\ ~ShowsUpload
    /\ activeTab' = tab
    /\ UNCHANGED << documentText, docName, analysis, isLoading, rewrites >>
    /\ UNCHANGED << uploadVars, clientVars, panelVars, chatVars >>
    /\ lastOp' = [op |-> "setActiveTab"]

-----------------------------------------------------------------------------
(* FileUpload *)

setMode(m) ==
    /\ UploadControls
    /\ mode' = m
    /\ UNCHANGED << manualText, isProcessing, extracting >>
    /\ UNCHANGED << shellVars, clientVars, panelVars, chatVars >>
    /\ lastOp' = [op |-> "setMode"]

\* the onChange of the paste area
setManualText(t) ==
    /\ UploadControls
    /\ mode = "paste"
    /\ manualText' = t
    /\ UNCHANGED << mode, isProcessing, extracting >>
    /\ UNCHANGED << shellVars, clientVars, panelVars, chatVars >>
    /\ lastOp' = [op |-> "setManualText"]

\* the length test with the limit one too low
ManualTextTooShortOffByOne(t) ==
    Len(Trim(t)) < MinPasteChars - 1

\* the length test of handleManualSubmit
ManualTextTooShort(t) ==
    Len(Trim(t)) < MinPasteChars

handleManualSubmit ==
    /\ UploadControls
    /\ mode = "paste"
    /\ IF ManualTextTooShort(manualText)
       THEN /\ UNCHANGED << shellVars, clientVars >>
            /\ lastOp' = [op |-> "handleManualSubmit", outcome |-> "rejected"]
       ELSE /\ handleDocumentLoaded(manualText, FileName("Manual Paste", "txt"))
            /\ lastOp' = [op |-> "handleManualSubmit", outcome |-> LoadOutcome]
    /\ UNCHANGED << uploadVars, panelVars, chatVars >>

\* processFile up to its await, for a dropped or a browsed file.  A file no
\* branch of extractTextFromFile accepts is rejected before the await
\* suspends, so the catch and finally blocks run in the same task.
processFile(file) ==
    /\ UploadControls
    /\ mode = "upload"
    /\ LET r == extractTextFromFile(file, TRUE)
       IN  IF r.libs = {}
           THEN /\ UNCHANGED << isProcessing, extracting >>
                /\ lastOp' = [op |-> "processFile", outcome |-> "rejected",
                              error |-> r.error, libs |-> r.libs,
                              name |-> file.name, type |-> file.type]
           ELSE /\ isProcessing' = TRUE
                /\ extracting' = Some(file)
                /\ lastOp' = [op |-> "processFile", outcome |-> "started",
                              error |-> "", libs |-> r.libs,
                              name |-> file.name, type |-> file.type]
    /\ UNCHANGED << mode, manualText >>
    /\ UNCHANGED << shellVars, clientVars, panelVars, chatVars >>

\* extractTextFromFile settles and processFile runs to its end
ExtractSettle(libOk) ==
    /\ extracting # Null
    /\ LET file == Val(extracting)
           r == extractTextFromFile(file, libOk)
       IN  IF ~r.ok
           THEN /\ UNCHANGED << mode, manualText, shellVars, clientVars >>
                /\ lastOp' = [op |-> "extractSettled", outcome |-> "rejected",
                              error |-> r.error, libs |-> r.libs]
           ELSE IF Includes(r.text, UnableToExtract)
           THEN /\ mode' = "paste"
                /\ manualText' = PasteHint
                /\ UNCHANGED << shellVars, clientVars >>
                /\ lastOp' = [op |-> "extractSettled", outcome |-> "pasteMode",
                              error |-> "", libs |-> r.libs]
           ELSE /\ handleDocumentLoaded(r.text, file.name)
                /\ UNCHANGED << mode, manualText >>
                /\ lastOp' = [op |-> "extractSettled", outcome |-> LoadOutcome,
                              error |-> "", libs |-> r.libs]
    /\ isProcessing' = FALSE
    /\ extracting' = Null
    /\ UNCHANGED << panelVars, chatVars >>

-----------------------------------------------------------------------------
(* ClausePanel *)

Clauses ==
    IF analysis = Null THEN << >> ELSE Val(analysis).clauses

ClauseIds ==
    { Clauses[i].id : i \in DOMAIN Clauses }

\* the clauses whose card is rendered with its expanded content
ExpandedClauses ==
    IF ~PanelMounted THEN {}
    ELSE { i \in DOMAIN Clauses : expandedClauseId = Some(Clauses[i].id) }

\* rewrites[clause.id] is truthy: the stored rewrite is shown, no button
HasRewrite(id) ==
    id \in DOMAIN rewrites /\ TruthyStr(rewrites[id])

\* disabled={rewritingId === clause.id}
RewriteDisabled(id) ==
    rewritingId = Some(id)

\* the rewrite button of the clause is rendered and not disabled
RewriteAvailable(id) ==
    /\ PanelMounted
    /\ expandedClauseId = Some(id)
    /\ ~HasRewrite(id)
    /\ ~RewriteDisabled(id)

\* setExpandedClauseId(id): reselecting does not collapse
ToggleTargetNoCollapse(current, id) ==
    Some(id)

\* setExpandedClauseId(expandedClauseId === id ? null : id)
ToggleTarget(current, id) ==
    IF current = Some(id) THEN Null ELSE Some(id)

toggleClause(id) ==
    /\ PanelMounted
    /\ id \in ClauseIds
    /\ expandedClauseId' = ToggleTarget(expandedClauseId, id)
    /\ UNCHANGED << rewritingId, rewriteCalls >>
    /\ UNCHANGED << shellVars, uploadVars, clientVars, chatVars >>
    /\ lastOp' = [op |-> "toggleClause", id |-> id, was |-> expandedClauseId]

\* handleRewrite up to its await.  Without an API key rewriteClause throws
\* before any request is made.
handleRewrite(i) ==
    /\ i \in DOMAIN Clauses
    /\ RewriteAvailable(Clauses[i].id)
    /\ IF apiKey
       THEN /\ BagCardinality(rewriteCalls) < MaxRewriteCalls
            /\ rewritingId' = Some(Clauses[i].id)
            /\ rewriteCalls' = rewriteCalls (+)
                  SetToBag({[id |-> Clauses[i].id, text |-> Clauses[i].text,
                             context |-> Val(analysis).domain, live |-> TRUE]})
            /\ lastOp' = [op |-> "handleRewrite", id |-> Clauses[i].id,
                          outcome |-> "requested"]
       ELSE /\ rewritingId' = Null
            /\ UNCHANGED rewriteCalls
            /\ lastOp' = [op |-> "handleRewrite", id |-> Clauses[i].id,
                          outcome |-> "failed"]
    /\ UNCHANGED expandedClauseId
    /\ UNCHANGED << shellVars, uploadVars, clientVars, chatVars >>

\* handleRewrite without its finally block
RewritingIdKept(call) ==
    rewritingId

\* the finally block of handleRewrite: setRewritingId(null), which acts on
\* the panel that issued the call only while that panel is mounted
RewritingIdAfter(call) ==
    IF call.live THEN Null ELSE rewritingId

\* a rewrite request succeeds: onRewriteUpdate(clause.id, newText)
RewriteResolve(call, responseText) ==
    /\ BagIn(call, rewriteCalls)
    /\ rewriteCalls' = rewriteCalls (-) SetToBag({call})
    /\ rewrites' = handleRewriteUpdate(rewrites, call.id, rewriteClause(responseText))
    /\ rewritingId' = RewritingIdAfter(call)
    /\ UNCHANGED expandedClauseId
    /\ UNCHANGED << documentText, docName, analysis, isLoading, activeTab >>
    /\ UNCHANGED << uploadVars, clientVars, chatVars >>
    /\ lastOp' = [op |-> "rewriteResolved", id |-> call.id, live |-> call.live,
                  text |-> rewriteClause(responseText)]

\* a rewrite request fails: the alert, then the finally block
RewriteFail(call) ==
    /\ BagIn(call, rewriteCalls)
    /\ rewriteCalls' = rewriteCalls (-) SetToBag({call})
    /\ rewritingId' = RewritingIdAfter(call)
    /\ UNCHANGED expandedClauseId
    /\ UNCHANGED << shellVars, uploadVars, clientVars, chatVars >>
    /\ lastOp' = [op |-> "rewriteFailed", id |-> call.id, live |-> call.live]

-----------------------------------------------------------------------------
(* ChatWindow *)

ApologyMessage ==
    ChatMessage(<< "e", "r", "r" >>, "model", Apology)

LiveCalls(calls) ==
    BagCardinality([c \in { d \in DOMAIN calls : d.live } |-> calls[c]])

\* the catch block of handleSend putting the apology in the place of the
\* last message
MessagesAfterFailureReplacing(msgs) ==
    [msgs EXCEPT ![Len(msgs)] = ApologyMessage]

\* the catch block of handleSend without its setMessages
MessagesAfterFailureSwallowed(msgs) ==
    msgs

\* the catch block of handleSend: setMessages(prev => [...prev, apology])
MessagesAfterFailure(msgs) ==
    Append(msgs, ApologyMessage)

\* the onChange of the chat input
setInput(t) ==
    /\ ChatMounted
    /\ input' = t
    /\ UNCHANGED << messages, isTyping, chatCalls, now >>
    /\ UNCHANGED << shellVars, uploadVars, clientVars, panelVars >>
    /\ lastOp' = [op |-> "setInput"]

\* the send button is disabled while typing or for a blank input; the Enter
\* key of the input calls handleSend directly
CanTrigger(trigger) ==
    IF trigger = "enter" THEN TRUE ELSE ~isTyping /\ TruthyStr(Trim(input))

\* handleSend up to its await; t is Date.now().  Without a session
\* sendMessageToChat throws before any request is made.
handleSend(trigger, t) ==
    /\ ChatMounted
    /\ CanTrigger(trigger)
    /\ IF ~TruthyStr(Trim(input))
       THEN /\ t = now
            /\ UNCHANGED << messages, input, isTyping, chatCalls, now >>
            /\ lastOp' = [op |-> "handleSend", outcome |-> "ignored"]
       ELSE LET userMsg == ChatMessage(DecimalString(t), "user", input)
            IN  /\ Len(messages) + LiveCalls(chatCalls) + 2 <= MaxMessages
                /\ BagCardinality(chatCalls) < MaxChatCalls
                /\ now' = t
                /\ input' = << >>
                /\ IF chatSession # Null
                   THEN /\ messages' = Append(messages, userMsg)
                        /\ isTyping' = TRUE
                        /\ chatCalls' = chatCalls (+)
                              SetToBag({[userMsg |-> userMsg, session |-> chatSession,
                                         live |-> TRUE]})
                        /\ lastOp' = [op |-> "handleSend", outcome |-> "requested"]
                   ELSE /\ messages' = MessagesAfterFailure(Append(messages, userMsg))
                        /\ isTyping' = FALSE
                        /\ UNCHANGED chatCalls
                        /\ lastOp' = [op |-> "handleSend", outcome |-> "failed"]
    /\ UNCHANGED << shellVars, uploadVars, clientVars, panelVars >>

\* the chat request succeeds; t is Date.now().  The setState calls act on
\* the chat window that issued the call only while it is mounted.
ChatResolve(call, responseText, t) ==
    /\ BagIn(call, chatCalls)
    /\ chatCalls' = chatCalls (-) SetToBag({call})
    /\ IF call.live
       THEN /\ now' = t
            /\ messages' = Append(messages,
                  ChatMessage(DecimalString(t + 1), "model", sendMessageToChat(responseText)))
            /\ isTyping' = FALSE
       ELSE /\ t = now
            /\ UNCHANGED << messages, isTyping, now >>
    /\ UNCHANGED input
    /\ UNCHANGED << shellVars, uploadVars, clientVars, panelVars >>
    /\ lastOp' = [op |-> "chatResolved", live |-> call.live, userMsg |-> call.userMsg]

\* the chat request fails: the catch block, then the finally block
ChatFail(call) ==
    /\ BagIn(call, chatCalls)
    /\ chatCalls' = chatCalls (-) SetToBag({call})
    /\ IF call.live
       THEN /\ messages' = MessagesAfterFailure(messages)
            /\ isTyping' = FALSE
       ELSE UNCHANGED << messages, isTyping >>
    /\ UNCHANGED << input, now >>
    /\ UNCHANGED << shellVars, uploadVars, clientVars, panelVars >>
    /\ lastOp' = [op |-> "chatFailed", live |-> call.live, userMsg |-> call.userMsg]

-----------------------------------------------------------------------------
(* Specifications *)

\* the files the user picks while the clause panel and the chat are exercised
FewFiles ==
    { f \in TextFiles : f.name.stem \in {"contract", "empty"} }
      \cup { f \in OtherFiles : f.name.ext = "docx" /\ f.type.major = "" }

FewTexts ==
    { Rep("m", MinPasteChars) }

UploadNext(files, texts) ==
    \/ \E m \in {"upload", "paste"} : setMode(m)
    \/ \E t \in texts : setManualText(t)
    \/ handleManualSubmit
    \/ \E f \in files : processFile(f)
    \/ \E libOk \in BOOLEAN : ExtractSettle(libOk)
    \/ \E result \in Analyses : AnalyzeResolve(result)
    \/ AnalyzeFail
    \/ handleReset
    \/ \E tab \in {"chat", "analysis"} : setActiveTab(tab)

PanelNext ==
    \/ \E id \in ClauseIds : toggleClause(id)
    \/ \E i \in DOMAIN Clauses : handleRewrite(i)
    \/ \E call \in DOMAIN rewriteCalls, r \in RewriteResponses : RewriteResolve(call, r)
    \/ \E call \in DOMAIN rewriteCalls : RewriteFail(call)

ChatNext ==
    \/ \E t \in ChatInputs : setInput(t)
    \/ \E trigger \in {"button", "enter"}, t \in now..MaxNow : handleSend(trigger, t)
    \/ \E call \in DOMAIN chatCalls, r \in ChatResponses, t \in now..MaxNow :
          ChatResolve(call, r, t)
    \/ \E call \in DOMAIN chatCalls : ChatFail(call)

\* the application shell, the file upload and the text extractor, over all files
Next ==
    UploadNext(AllFiles, ManualTexts)

Spec ==
    Init /\ [][Next]_vars

\* the shell with the clause panel and its rewrite requests
NextPanel ==
    \/ UploadNext(FewFiles, FewTexts)
    \/ PanelNext

SpecPanel ==
    Init /\ [][NextPanel]_vars

\* the shell with the chat window and its chat requests
NextChat ==
    \/ UploadNext(FewFiles, FewTexts)
    \/ ChatNext

SpecChat ==
    Init /\ [][NextChat]_vars

-----------------------------------------------------------------------------
(* Long documents *)

\* a text of n characters whose last character differs from the others
LongText(n) ==
    Rep("a", n - 1) \o << "z" >>

\* pasted texts around the limit of analyzeDocument
LongTexts ==
    { LongText(MaxAnalysisChars + k) : k \in -1..MaxOver } \cup FewTexts

\* text files around the limit of analyzeDocument
LongFiles ==
    { File(FileName("long", "txt"), Mime("text", "plain"),
           LongText(MaxAnalysisChars + k) \o << "\n" >>, << >>, << >>) : k \in -1..MaxOver }

\* the shell and the file upload over documents around the analysis limit
NextLong ==
    UploadNext(LongFiles, LongTexts)

SpecLong ==
    Init /\ [][NextLong]_vars

-----------------------------------------------------------------------------
(* PDF Exporter: handleExportPDF *)

\* doc.splitTextToSize(text, width).length for a text of n characters: the
\* library fills lines of equal capacity and yields one line for no text
splitTextToSize(n) ==
    IF n = 0 THEN 1 ELSE (n + CharsPerLine - 1) \div CharsPerLine

\* the layout so far: the cursor y, the current page, what has been drawn
Layout(y, page, items) ==
    [y |-> y, page |-> page, items |-> items]

\* doc.text(lines, margin, y): lines of text drawn from the cursor on
Draw(L, kind, lines) ==
    [L EXCEPT !.items = Append(@, [kind |-> kind, page |-> L.page, y |-> L.y, lines |-> lines])]

Advance(L, dy) ==
    [L EXCEPT !.y = @ + dy]

\* doc.addPage(); y = 20
AddPage(L) ==
    [L EXCEPT !.page = @ + 1, !.y = 20]

\* the title banner, the document name, the domain line and the summary box
ExportHeader(a) ==
    LET banner == Draw(Layout(16, 1, << >>), "title", 1)
        name == Draw([banner EXCEPT !.y = 35], "docName", 1)
        domain == Draw(Advance(name, 7), "domain", 1)
        box == Advance(domain, 12)
        summary == Draw(Advance(box, 10), "summary", splitTextToSize(Len(a.summary)))
    IN  Advance(summary, 30)

\* analysis.nextSteps.forEach: a page break before a step that would pass
\* the bottom limit
RECURSIVE NextStepsLoop(_, _, _)
NextStepsLoop(L, steps, i) ==
    IF i > Len(steps) THEN L
    ELSE LET lines == splitTextToSize(2 + Len(steps[i]))
             at == IF L.y + lines * 5 > BottomLimit THEN AddPage(L) ELSE L
         IN  NextStepsLoop(Advance(Draw(at, "nextStep", lines), lines * 5 + 2), steps, i + 1)

ExportNextSteps(L, steps) ==
    IF Len(steps) > 0
    THEN Advance(NextStepsLoop(Advance(Draw(L, "nextStepsHeading", 1), 6), steps, 1), 5)
    ELSE L

\* analysis.redFlags.forEach: no page break inside the loop
RECURSIVE RedFlagsLoop(_, _, _)
RedFlagsLoop(L, flags, i) ==
    IF i > Len(flags) THEN L
    ELSE LET lines == splitTextToSize(2 + Len(flags[i]))
         IN  RedFlagsLoop(Advance(Draw(L, "redFlag", lines), lines * 5 + 2), flags, i + 1)

\* the red-flags section drawn whether or not there is a red flag
ExportRedFlagsAlways(L, flags) ==
    LET at == IF L.y > 250 THEN AddPage(L) ELSE L
    IN  Advance(RedFlagsLoop(Advance(Draw(at, "redFlagsHeading", 1), 6), flags, 1), 5)

ExportRedFlags(L, flags) ==
    IF Len(flags) > 0
    THEN LET at == IF L.y > 250 THEN AddPage(L) ELSE L
         IN  Advance(RedFlagsLoop(Advance(Draw(at, "redFlagsHeading", 1), 6), flags, 1), 5)
    ELSE L

\* rewrites[clause.id] is truthy in the mapping rw
HasRewriteIn(rw, id) ==
    IF id \in DOMAIN rw THEN TruthyStr(rw[id]) ELSE FALSE

\* one clause block: title, text, explanation, law reference and rewrite
ExportClause(L, clause, rw) ==
    LET at == IF L.y > 220 THEN AddPage(L) ELSE L
        title == Advance(Draw(at, "clauseTitle", 1), 5)
        textLines == splitTextToSize(2 + Len(clause.text))
        text == Advance(Draw(title, "clauseText", textLines), textLines * 4 + 3)
        explLines == splitTextToSize(10 + Len(clause.explanation))
        expl == Advance(Draw(text, "clauseExplanation", explLines), explLines * 4 + 2)
        lawLines == splitTextToSize(12 + Len(clause.indianLawReference))
        law == Advance(Draw(expl, "clauseLaw", lawLines), lawLines * 4 + 4)
        rewriteLines == splitTextToSize(2 + Len(rw[clause.id]))
        rewritten ==
            IF HasRewriteIn(rw, clause.id)
            THEN Advance(Draw(Advance(Draw(law, "rewriteHeading", 1), 5),
                              "rewriteText", rewriteLines), rewriteLines * 4 + 4)
            ELSE law
    IN  Advance(rewritten, 4)

RECURSIVE ClausesLoop(_, _, _, _)
ClausesLoop(L, clauses, rw, i) ==
    IF i > Len(clauses) THEN L
    ELSE ClausesLoop(ExportClause(L, clauses[i], rw), clauses, rw, i + 1)

ExportClauses(L, clauses, rw) ==
    ClausesLoop(Advance(Draw(L, "clausesHeading", 1), 10), clauses, rw, 1)

\* the footer of every page, drawn after all content is laid out
Footers(pageCount) ==
    [i \in 1..pageCount |-> [kind |-> "footer", page |-> i, y |-> 290, lines |-> 1]]

\* what handleExportPDF produces: nothing without an analysis, otherwise
\* the saved document with all that has been drawn
ExportPDF(an, rw) ==
    IF an = Null
    THEN [saved |-> FALSE, pages |-> 0, items |-> << >>]
    ELSE LET a == Val(an)
             body == ExportClauses(
                        ExportRedFlags(
                          ExportNextSteps(ExportHeader(a), a.nextSteps),
                          a.redFlags),
                        a.clauses, rw)
         IN  [saved |-> TRUE, pages |-> body.page,
              items |-> body.items \o Footers(body.page)]

handleExportPDF ==
    /\ lastOp' = [op |-> "handleExportPDF", pdf |-> ExportPDF(analysis, rewrites)]
    /\ UNCHANGED << shellVars, uploadVars, clientVars, panelVars, chatVars >>

\* a text that splitTextToSize splits into the given number of lines
TextOfLines(lines) ==
    Rep("t", (lines - 1) * CharsPerLine + 1)

ExportClauseOf(id, lines) ==
    [id |-> id, title |-> << "T" >>, text |-> TextOfLines(lines), riskLevel |-> "High",
     explanation |-> TextOfLines(lines), indianLawReference |-> << "S", "2", "7" >>]

\* analyses with 0..MaxItems next steps and red flags and 1..MaxItems
\* clauses, whose texts are one line or MaxLines lines long
ExportAnalyses ==
    { [summary |-> << "s", "u", "m" >>, domain |-> "Property",
       clauses |-> [i \in 1..nc |-> ExportClauseOf(i, lines)],
       overallRiskScore |-> 80,
       redFlags |-> [i \in 1..nf |-> TextOfLines(lines)],
       nextSteps |-> [i \in 1..ns |-> TextOfLines(lines)]] :
        nc \in 1..MaxItems, nf \in 0..MaxItems, ns \in 0..MaxItems, lines \in {1, MaxLines} }

\* the states handleExportPDF is applied in: no analysis, or an analysis of
\* a loaded document with no rewrite or with a rewrite of every clause
InitExport ==
    /\ analysis \in {Null} \cup { Some(a) : a \in ExportAnalyses }
    /\ documentText = IF analysis = Null THEN Null ELSE Some(ContractText)
    /\ docName = IF analysis = Null THEN FileName("", "") ELSE FileName("contract", "txt")
    /\ isLoading = FALSE
    /\ activeTab = "chat"
    /\ rewrites \in IF analysis = Null THEN {NoRewrites}
                   ELSE {NoRewrites, [i \in DOMAIN Val(analysis).clauses |-> RevisedClause]}
    /\ mode = "upload"
    /\ manualText = << >>
    /\ isProcessing = FALSE
    /\ extracting = Null
    /\ apiKey = (analysis # Null)
    /\ analyzing = Null
    /\ chatSession = IF analysis = Null THEN Null ELSE initChat(ContractText)
    /\ expandedClauseId = Null
    /\ rewritingId = Null
    /\ rewriteCalls = EmptyBag
    /\ messages = InitialMessages
    /\ input = << >>
    /\ isTyping = FALSE
    /\ chatCalls = EmptyBag
    /\ now = StartNow
    /\ lastOp = [op |-> "init"]

NextExport ==
    handleExportPDF

SpecExport ==
    InitExport /\ [][NextExport]_vars

-----------------------------------------------------------------------------
(* Analysis Client: the exported functions called on their own *)

\* a call of analyzeDocument, of rewriteClause or of sendMessageToChat either
\* throws before it reaches the AI service or sends a request to it
Threw ==
    [threw |-> TRUE, request |-> Null]

Requested(request) ==
    [threw |-> FALSE, request |-> Some(request)]

analyzeDocumentCall(text) ==
    IF ~apiKey THEN Threw ELSE Requested(analyzeDocument(text).document)

rewriteClauseCall(clauseText, context) ==
    IF ~apiKey THEN Threw ELSE Requested(<< clauseText, context >>)

sendMessageToChatCall(message) ==
    IF chatSession = Null THEN Threw ELSE Requested(<< Val(chatSession), message >>)

\* the texts the functions are called with: short ones, and one longer than
\* both limits
ClientTexts ==
    ManualTexts \cup {ContractText, LongText(MaxAnalysisChars + 1)}

ClientCall(op, result) ==
    /\ lastOp' = [op |-> op, threw |-> result.threw, request |-> result.request]
    /\ UNCHANGED << shellVars, uploadVars, panelVars, chatVars >>
    /\ UNCHANGED << apiKey, analyzing >>

ClientNext ==
    \/ \E text \in ClientTexts :
          ClientCall("analyzeDocument", analyzeDocumentCall(text)) /\ UNCHANGED chatSession
    \/ \E a \in Analyses : \E i \in DOMAIN a.clauses :
          /\ ClientCall("rewriteClause", rewriteClauseCall(a.clauses[i].text, a.domain))
          /\ UNCHANGED chatSession
    \/ \E text \in ClientTexts :
          /\ chatSession' = initChat(text)
          /\ ClientCall("initChat", [threw |-> FALSE, request |-> Null])
    \/ \E message \in ChatInputs :
          /\ ClientCall("sendMessageToChat", sendMessageToChatCall(message))
          /\ UNCHANGED chatSession

\* the exported functions called on their own, next to the calls the
\* application makes while documents are uploaded
NextClient ==
    \/ UploadNext(FewFiles, FewTexts)
    \/ ClientNext

SpecClient ==
    Init /\ [][NextClient]_vars

-----------------------------------------------------------------------------
(* Properties *)

Range(s) ==
    { s[i] : i \in DOMAIN s }

\* C1: right after handleReset the shell holds no document text, no
\* analysis, no rewrites, and the active tab is 'chat'.
C1_ResetClearsShell ==
    lastOp.op = "handleReset" =>
        /\ documentText = Null
        /\ analysis = Null
        /\ rewrites = NoRewrites
        /\ activeTab = "chat"

\* handleReset has run on a loaded document that had a rewrite and showed
\* the analysis tab
C1_Witness ==
    /\ lastOp.op = "handleReset"
    /\ ~NoDocument(lastOp.before.document)
    /\ lastOp.before.rewritten # {}
    /\ lastOp.before.tab = "analysis"

\* the last handler was a failed extraction or a failed analysis
FailedLoad ==
    \/ lastOp.op = "analyzeFailed"
    \/ /\ lastOp.op \in {"processFile", "extractSettled"}
       /\ lastOp.outcome \in {"rejected", "analysisFailed"}
    \/ /\ lastOp.op = "handleManualSubmit"
       /\ lastOp.outcome = "analysisFailed"

\* C2: right after a failed extraction or a failed analysis the shell holds
\* no document text, no analysis and no rewrites, and both loading flags
\* are cleared.
C2_FailureLeavesNoDocument ==
    FailedLoad =>
        /\ documentText = Null
        /\ analysis = Null
        /\ rewrites = NoRewrites
        /\ ~isLoading
        /\ ~isProcessing

\* the text of the text layer alone: the page texts without the markers
RECURSIVE PdfTextLayer(_, _)
PdfTextLayer(pages, n) ==
    IF n = 0 THEN << >>
    ELSE PdfTextLayer(pages, n - 1) \o Join(pages[n], << " " >>)

TextLayerShort(file) ==
    Len(StripWhitespace(PdfTextLayer(file.pages, Len(file.pages)))) < MinPdfChars

\* C3: the extraction of a PDF whose text layer, whitespace removed, has
\* fewer than 50 characters never resolves: processFile sees a rejection.
C3_ShortPdfRejected ==
    [][ ( /\ extracting # Null
          /\ lastOp'.op = "extractSettled"
          /\ IsPdfFile(Val(extracting))
          /\ ~IsPlainTextFile(Val(extracting))
          /\ TextLayerShort(Val(extracting)) )
        => lastOp'.outcome = "rejected" ]_vars

\* C4: when a rewrite request for clause id i resolves with text t, then
\* rewrites[i] = t and every other entry is as it was, present with the
\* same text or absent.
C4_RewriteStoredOthersKept ==
    [][ lastOp'.op = "rewriteResolved" =>
          /\ lastOp'.id \in DOMAIN rewrites'
          /\ rewrites'[lastOp'.id] = lastOp'.text
          /\ DOMAIN rewrites' \ {lastOp'.id} = DOMAIN rewrites \ {lastOp'.id}
          /\ \A j \in DOMAIN rewrites \ {lastOp'.id} : rewrites'[j] = rewrites[j]
      ]_vars

\* the rewrite of clause 7 has resolved with "Revised clause." after the
\* rewrite of clause 3 had been stored
C4_Witness ==
    /\ lastOp.op = "rewriteResolved"
    /\ lastOp.id = 7
    /\ lastOp.text = RevisedClause
    /\ DOMAIN rewrites = {3, 7}
    /\ rewrites[7] = RevisedClause

\* C5: the resolution of a rewrite request that was in flight when the user
\* reset the application is discarded: it leaves the rewrite mapping as it is.
C5_StaleRewriteDiscarded ==
    [][ (lastOp'.op = "rewriteResolved" /\ ~lastOp'.live) => rewrites' = rewrites ]_vars

\* C6: at most one clause is rendered expanded; selecting a clause that is
\* not the expanded one leaves exactly that clause expanded, selecting the
\* expanded clause leaves none expanded.
C6_ExclusiveExpansion ==
    [][ /\ Cardinality(ExpandedClauses') <= 1
        /\ lastOp'.op = "toggleClause" =>
             IF expandedClauseId = Some(lastOp'.id)
             THEN ExpandedClauses' = {}
             ELSE ExpandedClauses' = { i \in DOMAIN Clauses : Clauses[i].id = lastOp'.id }
      ]_vars

\* clause 3 has been selected while clause 7 was expanded
C6_Witness ==
    /\ lastOp.op = "toggleClause"
    /\ lastOp.was = Some(7)
    /\ lastOp.id = 3
    /\ ExpandedClauses = {2}

\* C7: submitting a pasted text of fewer than 50 characters is rejected:
\* handleDocumentLoaded is not called, the shell state is unchanged and no
\* analysis request is issued.
C7_ShortPasteRejected ==
    [][ (lastOp'.op = "handleManualSubmit" /\ Len(manualText) < MinPasteChars) =>
          /\ lastOp'.outcome = "rejected"
          /\ UNCHANGED shellVars
          /\ UNCHANGED analyzing
      ]_vars

\* a pasted text of 49 characters has been submitted with an API key present
C7_Witness ==
    /\ lastOp.op = "handleManualSubmit"
    /\ lastOp.outcome = "rejected"
    /\ Len(manualText) = MinPasteChars - 1
    /\ apiKey

\* C8: when a chat turn fails, the transcript gains exactly the apology
\* message at its end, the user's message of the turn is still in it, and
\* the chat window is mounted with the typing flag cleared.
C8_FailedTurnApologizes ==
    [][ ( \/ lastOp'.op = "chatFailed" /\ lastOp'.live
          \/ lastOp'.op = "handleSend" /\ lastOp'.outcome = "failed" ) =>
          /\ messages'[Len(messages')] = ApologyMessage
          /\ IF lastOp'.op = "chatFailed"
             THEN /\ SubSeq(messages', 1, Len(messages') - 1) = messages
                  /\ lastOp'.userMsg \in Range(messages')
             ELSE /\ SubSeq(messages', 1, Len(messages') - 2) = messages
                  /\ messages'[Len(messages') - 1].role = "user"
          /\ ~isTyping'
          /\ ChatMounted'
      ]_vars

\* a chat request of the mounted chat window has failed
C8_Witness ==
    /\ lastOp.op = "chatFailed"
    /\ lastOp.live
    /\ ChatMounted
    /\ messages[Len(messages)] = ApologyMessage

\* C9: when a rewrite request fails, the rewrite mapping is unchanged, and
\* in the panel that issued it the rewrite button of the clause is no
\* longer disabled: where the clause is expanded without a stored rewrite,
\* its rewrite action is available.
C9_FailedRewriteReenables ==
    [][ \A id \in AllClauseIds :
          (lastOp'.op = "rewriteFailed" /\ lastOp'.id = id) =>
            /\ rewrites' = rewrites
            /\ lastOp'.live =>
                 /\ ~RewriteDisabled(id)'
                 /\ (expandedClauseId = Some(id) /\ ~HasRewrite(id))'
                      => RewriteAvailable(id)'
      ]_vars

\* the rewrite request of the expanded clause has failed and its rewrite
\* action is available
C9_Witness ==
    /\ lastOp.op = "rewriteFailed"
    /\ lastOp.live
    /\ RewriteAvailable(lastOp.id)

\* neither plain text or markdown, nor PDF, nor an image
UnsupportedFile(name, type) ==
    /\ type # Mime("text", "plain")
    /\ name.ext \notin {"txt", "md"}
    /\ type # Mime("application", "pdf")
    /\ type.major # "image"

\* C10: a file that is neither plain text or markdown, nor PDF, nor an image
\* is rejected with the unsupported-type error, no library is invoked, no
\* extraction is left in flight and the shell state is unchanged.
C10_UnsupportedRejected ==
    [][ (lastOp'.op = "processFile" /\ UnsupportedFile(lastOp'.name, lastOp'.type)) =>
          /\ lastOp'.outcome = "rejected"
          /\ lastOp'.error = "Unsupported file type. Please use .txt, .pdf, .jpg, or .png."
          /\ lastOp'.libs = {}
          /\ extracting' = Null
          /\ ~isProcessing'
          /\ UNCHANGED shellVars
      ]_vars

\* a .docx file has been rejected
C10_Witness ==
    /\ lastOp.op = "processFile"
    /\ lastOp.outcome = "rejected"
    /\ lastOp.name.ext = "docx"
    /\ lastOp.libs = {}

\* C11: the document embedded in the analysis request is the prefix of the
\* text handed to analyzeDocument, of length min(|t|, 30000): never longer
\* than 30,000 characters, and the text itself when that is not longer.
C11_RequestEmbedsPrefix ==
    analyzing # Null =>
        LET t == Val(analyzing).text
            d == Val(analyzing).document
        IN  /\ Len(d) <= MaxAnalysisChars
            /\ Len(d) <= Len(t)
            /\ Len(d) = MaxAnalysisChars \/ Len(d) = Len(t)
            /\ \A i \in 1..Len(d) : d[i] = t[i]
            /\ documentText # Null => Val(documentText) = t

\* an analysis request is in flight for a text of more than 30,000 characters
C11_Witness ==
    /\ analyzing # Null
    /\ Len(Val(analyzing).text) > MaxAnalysisChars
    /\ Len(Val(analyzing).document) = MaxAnalysisChars
    /\ documentText = Some(Val(analyzing).text)

KindsDrawn(pdf) ==
    { pdf.items[i].kind : i \in DOMAIN pdf.items }

CountDrawn(pdf, kind) ==
    Cardinality({ i \in DOMAIN pdf.items : pdf.items[i].kind = kind })

\* C12: the export draws the red-flags heading and items exactly when the
\* analysis has a red flag, and the next-steps heading and items exactly when
\* it has a next step; without an analysis it draws and saves nothing.
C12_ExportOmitsEmptySections ==
    lastOp.op = "handleExportPDF" =>
        IF analysis = Null
        THEN ~lastOp.pdf.saved /\ lastOp.pdf.items = << >>
        ELSE /\ lastOp.pdf.saved
             /\ "redFlagsHeading" \in KindsDrawn(lastOp.pdf) <=> Len(Val(analysis).redFlags) > 0
             /\ CountDrawn(lastOp.pdf, "redFlag") = Len(Val(analysis).redFlags)
             /\ "nextStepsHeading" \in KindsDrawn(lastOp.pdf) <=> Len(Val(analysis).nextSteps) > 0
             /\ CountDrawn(lastOp.pdf, "nextStep") = Len(Val(analysis).nextSteps)

\* an analysis with next steps and without red flags has been exported
C12_Witness ==
    /\ lastOp.op = "handleExportPDF"
    /\ analysis # Null
    /\ Val(analysis).redFlags = << >>
    /\ Len(Val(analysis).nextSteps) > 0
    /\ "nextStepsHeading" \in KindsDrawn(lastOp.pdf)
    /\ "redFlagsHeading" \notin KindsDrawn(lastOp.pdf)

\* the items of the exported document that belong to its blocks
BlockKinds ==
    {"nextStep", "redFlag", "clauseTitle", "clauseText", "clauseExplanation",
     "clauseLaw", "rewriteHeading", "rewriteText"}

\* C20: no next-step item, red-flag item or part of a clause block is drawn
\* beyond the bottom limit of its page (y > 280).
C20_NoBlockPastBottom ==
    lastOp.op = "handleExportPDF" =>
        \A i \in DOMAIN lastOp.pdf.items :
            lastOp.pdf.items[i].kind \in BlockKinds => lastOp.pdf.items[i].y <= BottomLimit

\* C13: an extraction or an analysis is started only when no extraction and no
\* analysis is in flight and neither isProcessing nor isLoading is set (an
\* analysis started by a finished extraction: when no analysis is in flight);
\* while one is in flight its flag is set and the upload controls are not
\* usable.
C13_OneExtractionOneAnalysis ==
    [][ /\ (lastOp'.op = "processFile" /\ lastOp'.outcome = "started") =>
              /\ extracting = Null /\ analyzing = Null
              /\ ~isProcessing /\ ~isLoading
        /\ (lastOp'.op = "handleManualSubmit" /\ lastOp'.outcome = "loaded") =>
              /\ extracting = Null /\ analyzing = Null
              /\ ~isProcessing /\ ~isLoading
        /\ (lastOp'.op = "extractSettled" /\ lastOp'.outcome = "loaded") =>
              analyzing = Null /\ ~isLoading
        /\ extracting' # Null => isProcessing'
        /\ analyzing' # Null => isLoading'
        /\ (isProcessing' \/ isLoading') => ~UploadControls'
      ]_vars

\* the shell has been reset while an analysis is in flight, and the upload
\* screen shows no control
C13_Witness ==
    /\ lastOp.op = "handleReset"
    /\ analyzing # Null
    /\ isLoading
    /\ ShowsUpload
    /\ ~UploadControls

\* the session initChat creates from the text of the loaded document
SessionOfDocument ==
    Some([context |-> Substring0(Val(documentText), MaxChatContextChars)])

\* C14: whenever the chat panel is displayed, the one chat session is the one
\* created from the text of the loaded document, and every request the
\* displayed panel has sent went to that session.
C14_SessionOfCurrentDocument ==
    /\ ChatMounted => chatSession = SessionOfDocument
    /\ \A c \in DOMAIN chatCalls :
          c.live => (ChatMounted /\ c.session = SessionOfDocument)

\* a message has been sent about a second document while a request sent
\* about an earlier document is still unanswered
C14_Witness ==
    /\ lastOp.op = "handleSend"
    /\ lastOp.outcome = "requested"
    /\ ChatMounted
    /\ \E c \in DOMAIN chatCalls : c.live /\ c.session = SessionOfDocument
    /\ \E c \in DOMAIN chatCalls : ~c.live /\ c.session # SessionOfDocument

\* C15: without an API key analyzeDocument and rewriteClause throw and send
\* no request, initChat creates no session, so that sendMessageToChat throws
\* as well; no request is in flight at any time.
C15_NoKeyNoRequest ==
    ~apiKey =>
        /\ chatSession = Null
        /\ lastOp.op \in {"analyzeDocument", "rewriteClause", "sendMessageToChat"} =>
              lastOp.threw /\ lastOp.request = Null
        /\ analyzing = Null
        /\ rewriteCalls = EmptyBag
        /\ chatCalls = EmptyBag

\* without a key a chat message has been sent and the call has thrown
C15_Witness ==
    /\ ~apiKey
    /\ lastOp.op = "sendMessageToChat"
    /\ lastOp.threw
    /\ chatSession = Null

\* the requests to the AI service that have been sent and not yet answered
Outstanding ==
    (IF analyzing # Null THEN 1 ELSE 0)
        + BagCardinality(rewriteCalls) + BagCardinality(chatCalls)

\* C16: at most one request to the AI service is outstanding at any time.
C16_OneRequestOutstanding ==
    Outstanding <= 1

\* C17: while a rewrite request of the displayed panel for a clause is in
\* flight, the rewrite action of that clause is not available.
C17_RewriteDisabledWhileInFlight ==
    \A c \in DOMAIN rewriteCalls :
        c.live => ~RewriteAvailable(c.id)

\* C18: the transcript starts with the greeting, which occurs nowhere else in
\* it, and a step that keeps the chat panel mounted leaves the transcript
\* unchanged or extends it by one message at its end.
C18_TranscriptAppendOnly ==
    [][ /\ messages'[1] = InitialMessages[1]
        /\ \A i \in 2..Len(messages') : messages'[i].id # InitialMessages[1].id
        /\ (ChatMounted /\ ChatMounted') =>
              \/ messages' = messages
              \/ /\ Len(messages') = Len(messages) + 1
                 /\ SubSeq(messages', 1, Len(messages)) = messages
      ]_vars

\* after a failed and an answered turn the transcript holds the greeting,
\* two messages of the user, an apology and a reply
C18_Witness ==
    /\ ChatMounted
    /\ lastOp.op = "chatResolved"
    /\ lastOp.live
    /\ Len(messages) = 5
    /\ messages[1] = InitialMessages[1]
    /\ ApologyMessage \in Range(messages)

\* C19: the typing indicator is on exactly while a chat request of the
\* displayed panel awaits its response, and in the transcript every message
\* of the user but the last is followed at once by a reply or an apology.
C19_IndicatorFollowsTurns ==
    /\ isTyping <=> LiveCalls(chatCalls) > 0
    /\ \A i \in 1..(Len(messages) - 1) :
          messages[i].role = "user" => messages[i + 1].role = "model"

\* C21: when the extraction of the chosen file resolves with a text, the
\* shell is handed the name of the file and that text: with an API key the
\* text is stored as documentText and analyzeDocument is called on it,
\* without one the call of analyzeDocument fails at once.
C21_ExtractedTextBecomesDocument ==
    [][ (lastOp'.op = "extractSettled" /\ lastOp'.outcome # "rejected") =>
          LET file == Val(extracting)
              text == extractTextFromFile(file, TRUE).text
          IN  /\ docName' = file.name
              /\ IF apiKey
                 THEN /\ lastOp'.outcome = "loaded"
                      /\ documentText' = Some(text)
                      /\ analyzing' = Some(analyzeDocument(text))
                 ELSE lastOp'.outcome = "analysisFailed"
      ]_vars

\* C22: a stored analysis comes with a stored, non-empty document text, and
\* once loading has ended the main view is shown, not the upload screen.
C22_AnalysisImpliesDocument ==
    analysis # Null =>
        /\ documentText # Null
        /\ TruthyStr(Val(documentText))
        /\ ~isLoading => ~ShowsUpload

\* C23: no two messages of the transcript carry the same id.
C23_MessageIdsUnique ==
    \A i, j \in DOMAIN messages :
        messages[i].id = messages[j].id => i = j

====
